---- MODULE Spec2Model ----
(***************************************************************************)
(* Model of the Ouedkniss crawl engine: the URL classifier                 *)
(* (src/src/crawler/url_filter.py), the fetch layer and the traversal      *)
(* engine (src/src/crawler/crawler.py) running on one asyncio event loop.  *)
(*                                                                         *)
(* A URL is the record urlparse makes of it: a host (netloc) and a path,   *)
(* the path a sequence of one-character strings.  The scheme is https      *)
(* everywhere and query and fragment are empty.                            *)
(***************************************************************************)
EXTENDS Integers, Sequences, FiniteSets, TLC

(***************************************************************************)
(* Bounds of the model.                                                    *)
(***************************************************************************)
MaxPage == 2           \* a traversal of crawl_all_categories is followed up to this page count
MaxPageAlone == 6      \* a traversal called alone is followed up to this page count
MaxPagesArg == 2       \* largest max_pages argument tried (besides None)
MaxConcurrentArg == 1  \* largest explicit max_concurrent tried (0 = not given)
MaxPathLen == 5        \* longest path handed to the classifier on its own

(***************************************************************************)
(* Program constants (src/src/config/settings.py, crawler.py).             *)
(***************************************************************************)
MAX_RETRIES == 3
RATE_LIMIT_DELAY == 1
CONCURRENT_REQUESTS == 5
MaxCategoryRoots == 3

None == [kind |-> "None"]
NoPages == 0 - 1       \* max_pages = None

(***************************************************************************)
(* Characters and strings.                                                 *)
(***************************************************************************)
Lower == {"a","b","c","d","e","f","g","h","i","j","k","l","m",
          "n","o","p","q","r","s","t","u","v","w","x","y","z"}
Digit == {"0","1","2","3","4","5","6","7","8","9"}

DigitValue(c) ==
    CASE c = "0" -> 0 [] c = "1" -> 1 [] c = "2" -> 2 [] c = "3" -> 3
      [] c = "4" -> 4 [] c = "5" -> 5 [] c = "6" -> 6 [] c = "7" -> 7
      [] c = "8" -> 8 [] c = "9" -> 9

DigitChar(n) ==
    CASE n = 0 -> "0" [] n = 1 -> "1" [] n = 2 -> "2" [] n = 3 -> "3"
      [] n = 4 -> "4" [] n = 5 -> "5" [] n = 6 -> "6" [] n = 7 -> "7"
      [] n = 8 -> "8" [] n = 9 -> "9"

\* int(s) for a non-empty string of digits
RECURSIVE ParseInt(_)
ParseInt(s) ==
    IF s = <<>> THEN 0
    ELSE 10 * ParseInt(SubSeq(s, 1, Len(s) - 1)) + DigitValue(s[Len(s)])

\* str(n) for n >= 0, as the f-string formats the page counter
RECURSIVE FormatInt(_)
FormatInt(n) ==
    IF n < 10 THEN <<DigitChar(n)>>
    ELSE FormatInt(n \div 10) \o <<DigitChar(n % 10)>>

AllIn(s, S) == \A i \in 1..Len(s) : s[i] \in S

\* s.split(sep): the pieces between the separators, empty pieces kept
RECURSIVE Split(_, _)
Split(s, sep) ==
    IF \A i \in 1..Len(s) : s[i] # sep THEN <<s>>
    ELSE LET k == CHOOSE i \in 1..Len(s) :
                      s[i] = sep /\ \A j \in 1..(i - 1) : s[j] # sep
         IN  <<SubSeq(s, 1, k - 1)>> \o Split(SubSeq(s, k + 1, Len(s)), sep)

\* sep.join(parts)
RECURSIVE Join(_, _)
Join(parts, sep) ==
    IF parts = <<>> THEN <<>>
    ELSE IF Len(parts) = 1 THEN parts[1]
    ELSE parts[1] \o <<sep>> \o Join(Tail(parts), sep)

Count(s, c) == Cardinality({i \in 1..Len(s) : s[i] = c})

(***************************************************************************)
(* URLFilter.                                                              *)
(***************************************************************************)
SiteHost == "www.ouedkniss.com"
BareHost == "ouedkniss.com"
BASE_URL == [host |-> SiteHost, path |-> <<>>]

Url(h, p) == [host |-> h, path |-> p]

\* category_pattern = ^/([a-z-]+)/(\d+)$ : the position of the second slash
\* of a matching path, 0 when the path does not match
\* mutant: the page number may also follow a dash
CategorySlash_OrDash(path) ==
    LET ks == {k \in 3..(Len(path) - 1) :
                  /\ path[1] = "/"
                  /\ path[k] \in {"/", "-"}
                  /\ AllIn(SubSeq(path, 2, k - 1), Lower \cup {"-"})
                  /\ AllIn(SubSeq(path, k + 1, Len(path)), Digit)}
    IN  IF ks = {} THEN 0 ELSE CHOOSE k \in ks : TRUE

CategorySlash(path) ==
    LET ks == {k \in 3..(Len(path) - 1) :
                  /\ path[1] = "/"
                  /\ path[k] = "/"
                  /\ AllIn(SubSeq(path, 2, k - 1), Lower \cup {"-"})
                  /\ AllIn(SubSeq(path, k + 1, Len(path)), Digit)}
    IN  IF ks = {} THEN 0 ELSE CHOOSE k \in ks : TRUE

category_match(path) == CategorySlash(path) # 0
category_group1(path) == SubSeq(path, 2, CategorySlash(path) - 1)
category_group2(path) == SubSeq(path, CategorySlash(path) + 1, Len(path))

\* mutant: any path ending in a digit is taken for a product
ProductSuffix_AnyDigit(path) ==
    IF path # <<>> /\ path[Len(path)] \in Digit THEN Len(path) ELSE 0

\* mutant: one digit only is taken for a product id
ProductSuffix_OneDigit(path) ==
    IF /\ Len(path) >= 3
       /\ path[Len(path) - 2] = "-"
       /\ path[Len(path) - 1] = "d"
       /\ path[Len(path)] \in Digit
    THEN Len(path) - 2 ELSE 0

\* re.search(r'-d\d+$', path): the start of the match, 0 when there is none
ProductSuffix(path) ==
    LET is == {i \in 1..(Len(path) - 2) :
                  /\ path[i] = "-"
                  /\ path[i + 1] = "d"
                  /\ AllIn(SubSeq(path, i + 2, Len(path)), Digit)}
    IN  IF is = {} THEN 0 ELSE CHOOSE i \in is : \A j \in is : i <= j

\* mutant: every host is taken for the site
is_valid_domain_AnyHost(url) == TRUE

is_valid_domain(url) == url.host \in {SiteHost, BareHost, ""}

\* urljoin(base, href) for the hrefs of the model: an absolute href is kept,
\* a root-relative one takes the base's host
urljoin(base, href) ==
    IF href.host # "" THEN href ELSE Url(base.host, href.path)

\* normalize_url
normalize_url(url) ==
    IF url.host = "" /\ url.path # <<>> /\ url.path[1] = "/"
    THEN urljoin(BASE_URL, url)
    ELSE url

\* mutant: category pages after the first are typed PAGINATION
classify_url_Paginated(url) ==
    IF ~is_valid_domain(url) THEN "INVALID"
    ELSE IF url.path = <<"/">> \/ url.path = <<>> THEN "HOME"
    ELSE IF ProductSuffix(url.path) # 0 THEN "PRODUCT"
    ELSE IF category_match(url.path)
         THEN IF ParseInt(category_group2(url.path)) > 1 THEN "PAGINATION"
              ELSE IF Count(category_group1(url.path), "-") = 0
              THEN "CATEGORY" ELSE "SUBCATEGORY"
    ELSE "INVALID"

classify_url(url) ==
    IF ~is_valid_domain(url) THEN "INVALID"
    ELSE IF url.path = <<"/">> \/ url.path = <<>> THEN "HOME"
    ELSE IF ProductSuffix(url.path) # 0 THEN "PRODUCT"
    ELSE IF category_match(url.path)
         THEN IF Count(category_group1(url.path), "-") = 0
              THEN "CATEGORY" ELSE "SUBCATEGORY"
    ELSE "INVALID"

\* mutant: the slug is returned whole, as one segment
extract_category_info_Whole(url) ==
    IF ~category_match(url.path) THEN None
    ELSE [kind |-> "info",
          categories |-> <<category_group1(url.path)>>,
          page_num |-> ParseInt(category_group2(url.path))]

\* extract_category_info: (categories, page_num) or None
extract_category_info(url) ==
    IF ~category_match(url.path) THEN None
    ELSE [kind |-> "info",
          categories |-> Split(category_group1(url.path), "-"),
          page_num |-> ParseInt(category_group2(url.path))]

\* mutant: the letter d is returned with the digits
extract_product_id_WithD(url) ==
    IF ProductSuffix(url.path) = 0 THEN None
    ELSE [kind |-> "id",
          digits |-> SubSeq(url.path, ProductSuffix(url.path) + 1, Len(url.path))]

\* extract_product_id: the digits or None
extract_product_id(url) ==
    IF ProductSuffix(url.path) = 0 THEN None
    ELSE [kind |-> "id",
          digits |-> SubSeq(url.path, ProductSuffix(url.path) + 2, Len(url.path))]

\* mutant: product pages are not crawled
should_crawl_NoProduct(url) ==
    classify_url(url) \in {"HOME", "CATEGORY", "SUBCATEGORY"}

should_crawl(url) ==
    classify_url(url) \in {"HOME", "CATEGORY", "SUBCATEGORY", "PRODUCT"}

\* f"{BASE_URL}/{base_category}/{page}"
PageUrl(base_category, page) ==
    Url(BASE_URL.host, <<"/">> \o base_category \o <<"/">> \o FormatInt(page))


(***************************************************************************)
(* The site as the crawler sees it: the hrefs a page may hold and the      *)
(* bodies a 200 response may carry.                                        *)
(***************************************************************************)
HomeHref == Url(SiteHost, <<>>)                        \* https://www.ouedkniss.com
CatA1 == Url("", <<"/", "a", "/", "1">>)               \* /a/1
CatA2 == Url("", <<"/", "a", "/", "2">>)               \* /a/2
CatB1 == Url("", <<"/", "b", "/", "1">>)               \* /b/1
SubAB1 == Url("", <<"/", "a", "-", "b", "/", "1">>)    \* /a-b/1
Prod1 == Url("", <<"/", "x", "-", "d", "1">>)          \* /x-d1
OffSite == Url("evil.com", <<"/", "x", "-", "d", "1">>)
NoShape == Url("", <<"/", "a">>)                       \* /a

\* the link lists of the pages tried
Pages ==
    { <<>>,
      <<HomeHref>>,
      <<CatA1, CatB1>>,
      <<OffSite, NoShape, Prod1, Prod1>> }

Text(hrefs) == [kind |-> "text", empty |-> FALSE, hrefs |-> hrefs]
EmptyText == [kind |-> "text", empty |-> TRUE, hrefs |-> <<>>]

\* the link lists the home page may hold
HomePages ==
    { <<>>,
      <<CatA1, CatB1>>,
      <<CatA1, Prod1, HomeHref, CatA2, CatB1, SubAB1>> }

\* the link lists that page 3 of category a may hold besides: a link back to
\* page 2
BackPages == { <<CatA2>> }
BackPageUrl == Url(SiteHost, <<"/", "a", "/", "3">>)

\* the bodies a 200 response for url may carry
BodiesOf(url) ==
    {EmptyText} \cup
    {Text(s) : s \in IF url.path = <<>> THEN HomePages
                     ELSE IF url = BackPageUrl THEN Pages \cup BackPages
                     ELSE Pages}

\* mutant: only None is taken for a failed fetch
Falsy_NoneOnly(html) == html = None

\* "not html" of Python: None and the empty string are falsy
Falsy(html) == html = None \/ html.empty

\* the category URLs a caller may hand to crawl_category
CategoryArgs ==
    { Url(SiteHost, <<"/", "a", "/", "1">>),
      Url(SiteHost, <<"/", "a", "-", "b", "/", "2">>),
      Url(SiteHost, <<"/", "x", "-", "d", "1">>) }

RetryStatuses == {"500"}
Exceptions == {"Timeout", "Error"}

(***************************************************************************)
(* State.                                                                  *)
(***************************************************************************)
Main == 0
Tasks == 1..MaxCategoryRoots
Procs == {Main} \cup Tasks
Idle == 0 - 1

VARIABLES
    max_concurrent,  \* OuedknissCrawler.max_concurrent
    semaphore,       \* free permits of OuedknissCrawler.semaphore
    visited_urls,    \* OuedknissCrawler.visited_urls
    product_urls,    \* OuedknissCrawler.product_urls
    running,         \* the coroutine the event loop is executing, or Idle
    pc,              \* where each coroutine stands
    fetch_url,       \* fetch_page: url
    attempt,         \* fetch_page: attempt
    html,            \* the value fetch_page returned
    category_urls,   \* crawl_all_categories: category_urls[:3]
    category_url,    \* crawl_category: category_url
    max_pages,       \* crawl_category: max_pages (NoPages = None)
    base_category,   \* crawl_category: base_category
    page,            \* crawl_category: page
    urls_to_visit,   \* crawl_category: urls_to_visit
    current_url,     \* crawl_category: current_url
    new_urls,        \* crawl_category: new_urls
    returned,        \* the value each coroutine returned
    fetch_calls,     \* history: how often fetch_page was called per URL
    requests,        \* history: requests issued by the fetch call in progress
    pacings,         \* history: pacing sleeps of the fetch call in progress
    backoffs,        \* history: backoff sleeps of the fetch call in progress
    cause,           \* history: what the last attempt observed
    exit,            \* history: the way the last fetch call ended
    found,           \* history: the products each traversal recorded itself
    first_yield,     \* history: did the first page of each traversal yield product links
    dequeued,        \* history: how many URLs each traversal has dequeued
    requested,       \* history: the URLs each coroutine handed to fetch_page, in order
    failed,          \* history: the URLs whose fetch came back falsy, per coroutine
    filter_url,      \* URLFilter: the URL handed to the classifier
    url_type,        \* URLFilter: what classify_url returned for it
    url_info,        \* URLFilter: what extract_category_info returned for it
    url_id,          \* URLFilter: what extract_product_id returned for it
    url_crawl,       \* URLFilter: what should_crawl returned for it
    classified_again, \* URLFilter: classify_url was called a second time
    scraper_pc,      \* BaseScraper.fetch_page: where the call stands
    scraper_attempt, \* BaseScraper.fetch_page: the loop variable attempt
    scraper_html,    \* BaseScraper.fetch_page: what the call returned
    scraper_seen,    \* history: what each request of the call met, in order
    scraper_pacings, \* history: the pacing sleeps of the call, in order
    scraper_backoffs \* history: the backoff sleeps of the call, in order

shared == <<max_concurrent, semaphore, visited_urls, product_urls>>
fetch_vars == <<fetch_url, attempt, html>>
main_vars == <<category_urls>>
task_vars == <<category_url, max_pages, base_category, page, urls_to_visit,
               current_url, new_urls>>
history == <<fetch_calls, requests, pacings, backoffs, cause, exit, found>>
trace == <<first_yield, dequeued, requested, failed>>
filter_vars == <<filter_url, url_type, url_info, url_id, url_crawl,
                 classified_again>>
scraper_vars == <<scraper_pc, scraper_attempt, scraper_html, scraper_seen,
                  scraper_pacings, scraper_backoffs>>
vars == <<shared, running, pc, fetch_vars, main_vars, task_vars, returned,
          history, trace, filter_vars, scraper_vars>>

NoUrl == Url("", <<>>)
Unset == [kind |-> "unset"]

\* BaseScraper.fetch_page has not been called
ScraperIdle ==
    /\ scraper_pc = "idle"
    /\ scraper_attempt = 0
    /\ scraper_html = Unset
    /\ scraper_seen = <<>>
    /\ scraper_pacings = <<>>
    /\ scraper_backoffs = <<>>
\* mutant: the session's product set is returned instead of a new set
EmptySet_Shared == [kind |-> "product_urls"]

EmptySet == [kind |-> "set"]            \* set(): a new empty set
SharedProducts == [kind |-> "product_urls"]  \* self.product_urls itself

\* max_concurrent or self.config.CONCURRENT_REQUESTS
OrDefault(v, d) == IF v = 0 THEN d ELSE v

CrawlerInit ==
    /\ \E mc \in 0..MaxConcurrentArg :
          /\ max_concurrent = OrDefault(mc, CONCURRENT_REQUESTS)
          /\ semaphore = OrDefault(mc, CONCURRENT_REQUESTS)
    /\ visited_urls = {}
    /\ product_urls = {}
    /\ running = Idle
    /\ pc = [p \in Procs |-> IF p = Main THEN "start" ELSE "idle"]
    /\ fetch_url = [p \in Procs |-> NoUrl]
    /\ attempt = [p \in Procs |-> 0]
    /\ html = [p \in Procs |-> None]
    /\ category_urls = <<>>
    /\ category_url = [t \in Tasks |-> NoUrl]
    /\ max_pages = [t \in Tasks |-> NoPages]
    /\ base_category = [t \in Tasks |-> <<>>]
    /\ page = [t \in Tasks |-> 0]
    /\ urls_to_visit = [t \in Tasks |-> <<>>]
    /\ current_url = [t \in Tasks |-> NoUrl]
    /\ new_urls = [t \in Tasks |-> <<>>]
    /\ returned = [p \in Procs |-> Unset]
    /\ fetch_calls = [u \in {} |-> 0]
    /\ requests = [p \in Procs |-> 0]
    /\ pacings = [p \in Procs |-> <<>>]
    /\ backoffs = [p \in Procs |-> <<>>]
    /\ cause = [p \in Procs |-> [status |-> "none", raised |-> "none"]]
    /\ exit = [p \in Procs |-> "none"]
    /\ found = [t \in Tasks |-> {}]
    /\ first_yield = [t \in Tasks |-> "unknown"]
    /\ dequeued = [t \in Tasks |-> 0]
    /\ requested = [p \in Procs |-> <<>>]
    /\ failed = [p \in Procs |-> {}]

Init ==
    /\ CrawlerInit
    /\ filter_url = NoUrl
    /\ url_type = "unset"
    /\ url_info = Unset
    /\ url_id = Unset
    /\ url_crawl = "unset"
    /\ classified_again = FALSE
    /\ ScraperIdle


(***************************************************************************)
(* fetch_page (crawler.py 50-85).  A call stands at one of its awaits:     *)
(* "sem_wait" (async with self.semaphore), "pace" (the pacing sleep),      *)
(* "request" (session.get and, on status 200, response.text(): nothing     *)
(* shared is touched between the two), "backoff" (the backoff sleep); at   *)
(* "fetched" it has returned and its caller runs on.                       *)
(***************************************************************************)
\* what one attempt observed: the status of its response, the exception raised
Observed(status, raised) == [status |-> status, raised |-> raised]
Nothing == Observed("none", "none")

Calls(u) == IF u \in DOMAIN fetch_calls THEN fetch_calls[u] ELSE 0

Holders == {p \in Procs : pc[p] \in {"pace", "request", "backoff"}}

\* mutant: a permit is taken whether or not one is free
PermitFree_Always == TRUE

\* Semaphore.acquire goes through without waiting
PermitFree == semaphore > 0

\* async with self.semaphore, entered: attempt 0 begins with the pacing sleep
SemaphoreEnter(p) ==
    /\ semaphore' = semaphore - 1
    /\ pc' = [pc EXCEPT ![p] = "pace"]

\* fetch_page is called with url u by the running coroutine p
FetchCall(p, u) ==
    /\ fetch_url' = [fetch_url EXCEPT ![p] = u]
    /\ attempt' = [attempt EXCEPT ![p] = 0]
    /\ html' = [html EXCEPT ![p] = None]
    /\ fetch_calls' = [v \in DOMAIN fetch_calls \cup {u} |->
                          Calls(v) + (IF v = u THEN 1 ELSE 0)]
    /\ requests' = [requests EXCEPT ![p] = 0]
    /\ pacings' = [pacings EXCEPT ![p] = <<>>]
    /\ backoffs' = [backoffs EXCEPT ![p] = <<>>]
    /\ cause' = [cause EXCEPT ![p] = Nothing]
    /\ exit' = [exit EXCEPT ![p] = "none"]
    /\ requested' = [requested EXCEPT ![p] = Append(@, u)]
    /\ IF PermitFree
       THEN SemaphoreEnter(p)
       ELSE /\ pc' = [pc EXCEPT ![p] = "sem_wait"]
            /\ UNCHANGED semaphore
    /\ running' = Idle

\* the caller has taken the result: the locals of the call are gone
FetchForget(p) ==
    /\ fetch_url' = [fetch_url EXCEPT ![p] = NoUrl]
    /\ attempt' = [attempt EXCEPT ![p] = 0]
    /\ html' = [html EXCEPT ![p] = None]
    /\ requests' = [requests EXCEPT ![p] = 0]
    /\ pacings' = [pacings EXCEPT ![p] = <<>>]
    /\ backoffs' = [backoffs EXCEPT ![p] = <<>>]
    /\ cause' = [cause EXCEPT ![p] = Nothing]

\* a waiting call gets a permit
semaphore_acquire(p) ==
    /\ running = Idle
    /\ pc[p] = "sem_wait"
    /\ PermitFree
    /\ SemaphoreEnter(p)
    /\ UNCHANGED <<max_concurrent, visited_urls, product_urls, running,
                   fetch_vars, main_vars, task_vars, returned, history>>
    /\ UNCHANGED <<trace, filter_vars, scraper_vars>>

\* await asyncio.sleep(RATE_LIMIT_DELAY) ends and session.get(url) is issued
pace_done(p) ==
    /\ running = Idle
    /\ pc[p] = "pace"
    /\ pc' = [pc EXCEPT ![p] = "request"]
    /\ pacings' = [pacings EXCEPT ![p] = Append(@, RATE_LIMIT_DELAY)]
    /\ requests' = [requests EXCEPT ![p] = @ + 1]
    /\ UNCHANGED <<shared, running, fetch_vars, main_vars, task_vars, returned,
                   fetch_calls, backoffs, cause, exit, found>>
    /\ UNCHANGED <<trace, filter_vars, scraper_vars>>

\* mutant: the permit is kept when the attempts run out
FetchReturn_KeepsPermit(p, value, how, why) ==
    /\ semaphore' = IF how = "exhausted" THEN semaphore ELSE semaphore + 1
    /\ html' = [html EXCEPT ![p] = value]
    /\ exit' = [exit EXCEPT ![p] = how]
    /\ cause' = [cause EXCEPT ![p] = why]
    /\ pc' = [pc EXCEPT ![p] = "fetched"]
    /\ running' = p
    /\ UNCHANGED attempt

\* fetch_page returns value: the permit is released and the caller runs on
FetchReturn(p, value, how, why) ==
    /\ semaphore' = semaphore + 1
    /\ html' = [html EXCEPT ![p] = value]
    /\ exit' = [exit EXCEPT ![p] = how]
    /\ cause' = [cause EXCEPT ![p] = why]
    /\ pc' = [pc EXCEPT ![p] = "fetched"]
    /\ running' = p
    /\ UNCHANGED attempt

\* mutant: the loop runs one attempt too many
HasNextAttempt_OneMore(a) == a + 1 <= MAX_RETRIES

\* line 61: range(MAX_RETRIES) has a value after attempt a
HasNextAttempt(a) == a + 1 < MAX_RETRIES

\* line 82: a backoff sleep follows the failed attempt a
BackoffDue(a) == a < MAX_RETRIES - 1

\* mutant: the exponent counts attempts from 1
BackoffDelay_OneIndexed(a) == 2 ^ (a + 1)

\* line 83: 2 ** attempt
BackoffDelay(a) == 2 ^ a

\* mutant: an empty body is returned when the loop runs out
ExhaustedValue_Empty == EmptyText

\* line 85: what the call returns when the loop runs out
ExhaustedValue == None

\* line 61: the loop goes to its next attempt, which begins with the pacing
\* sleep, or runs out
NextAttempt(p, why) ==
    IF HasNextAttempt(attempt[p])
    THEN /\ attempt' = [attempt EXCEPT ![p] = @ + 1]
         /\ cause' = [cause EXCEPT ![p] = Nothing]
         /\ pc' = [pc EXCEPT ![p] = "pace"]
         /\ UNCHANGED <<semaphore, html, exit, running>>
    ELSE FetchReturn(p, ExhaustedValue, "exhausted", why)

\* lines 77-83: the attempt has failed
AttemptFailed(p, why) ==
    IF BackoffDue(attempt[p])
    THEN /\ pc' = [pc EXCEPT ![p] = "backoff"]
         /\ backoffs' = [backoffs EXCEPT
                            ![p] = Append(@, BackoffDelay(attempt[p]))]
         /\ cause' = [cause EXCEPT ![p] = why]
         /\ UNCHANGED <<semaphore, html, exit, running, attempt>>
    ELSE NextAttempt(p, why) /\ UNCHANGED backoffs

\* response.status == 200 and return await response.text()
response_200(p) ==
    /\ running = Idle
    /\ pc[p] = "request"
    /\ \E body \in BodiesOf(fetch_url[p]) :
          FetchReturn(p, body, "200", Observed("200", "none"))
    /\ UNCHANGED backoffs
    /\ UNCHANGED <<max_concurrent, visited_urls, product_urls, fetch_url,
                   main_vars, task_vars, returned, fetch_calls, requests,
                   pacings, found>>
    /\ UNCHANGED <<trace, filter_vars, scraper_vars>>

\* response.status == 200, but response.text() raises inside the try
response_200_raises(p) ==
    /\ running = Idle
    /\ pc[p] = "request"
    /\ \E e \in Exceptions : AttemptFailed(p, Observed("200", e))
    /\ UNCHANGED <<max_concurrent, visited_urls, product_urls, fetch_url,
                   main_vars, task_vars, returned, fetch_calls, requests,
                   pacings, found>>
    /\ UNCHANGED <<trace, filter_vars, scraper_vars>>

\* mutant: a 404 is retried like any other status
response_404_Retried(p) ==
    /\ running = Idle
    /\ pc[p] = "request"
    /\ AttemptFailed(p, Observed("404", "none"))
    /\ UNCHANGED <<max_concurrent, visited_urls, product_urls, fetch_url,
                   main_vars, task_vars, returned, fetch_calls, requests,
                   pacings, found>>
    /\ UNCHANGED <<trace, filter_vars, scraper_vars>>

\* response.status == 404: return None
response_404(p) ==
    /\ running = Idle
    /\ pc[p] = "request"
    /\ FetchReturn(p, None, "404", Observed("404", "none"))
    /\ UNCHANGED backoffs
    /\ UNCHANGED <<max_concurrent, visited_urls, product_urls, fetch_url,
                   main_vars, task_vars, returned, fetch_calls, requests,
                   pacings, found>>
    /\ UNCHANGED <<trace, filter_vars, scraper_vars>>

\* any other status: logged, the attempt has failed
response_other(p) ==
    /\ running = Idle
    /\ pc[p] = "request"
    /\ \E st \in RetryStatuses : AttemptFailed(p, Observed(st, "none"))
    /\ UNCHANGED <<max_concurrent, visited_urls, product_urls, fetch_url,
                   main_vars, task_vars, returned, fetch_calls, requests,
                   pacings, found>>
    /\ UNCHANGED <<trace, filter_vars, scraper_vars>>

\* asyncio.TimeoutError or another Exception out of session.get
request_raises(p) ==
    /\ running = Idle
    /\ pc[p] = "request"
    /\ \E e \in Exceptions : AttemptFailed(p, Observed("none", e))
    /\ UNCHANGED <<max_concurrent, visited_urls, product_urls, fetch_url,
                   main_vars, task_vars, returned, fetch_calls, requests,
                   pacings, found>>
    /\ UNCHANGED <<trace, filter_vars, scraper_vars>>

\* mutant: the retry is requested at once, with no pacing sleep
backoff_done_NoPace(p) ==
    /\ running = Idle
    /\ pc[p] = "backoff"
    /\ HasNextAttempt(attempt[p])
    /\ attempt' = [attempt EXCEPT ![p] = @ + 1]
    /\ cause' = [cause EXCEPT ![p] = Nothing]
    /\ requests' = [requests EXCEPT ![p] = @ + 1]
    /\ pc' = [pc EXCEPT ![p] = "request"]
    /\ UNCHANGED <<shared, running, fetch_url, html, main_vars, task_vars,
                   returned, fetch_calls, pacings, backoffs, exit, found>>
    /\ UNCHANGED <<trace, filter_vars, scraper_vars>>

\* await asyncio.sleep(2 ** attempt) ends
backoff_done(p) ==
    /\ running = Idle
    /\ pc[p] = "backoff"
    /\ NextAttempt(p, cause[p])
    /\ UNCHANGED <<max_concurrent, visited_urls, product_urls, fetch_url,
                   main_vars, task_vars, returned, fetch_calls, requests,
                   pacings, backoffs, found>>
    /\ UNCHANGED <<trace, filter_vars, scraper_vars>>

(***************************************************************************)
(* crawl_page, crawl_category, crawl_all_categories (crawler.py 87-223)    *)
(* and their caller crawl_and_scrape (main.py 41-56).  Python runs a       *)
(* coroutine without interruption from one await to the next: a step that  *)
(* follows another without an await keeps `running`.                       *)
(***************************************************************************)
\* extract_links: join, normalize, keep what should_crawl accepts
extract_links(body, base_url) ==
    LET resolved == [i \in 1..Len(body.hrefs) |->
                        normalize_url(urljoin(base_url, body.hrefs[i]))]
    IN  SelectSeq(resolved, should_crawl)

IsRoot(link) == classify_url(link) \in {"CATEGORY", "SUBCATEGORY"}

\* mutant: the links are not tested against visited_urls
NotVisited_Untested(link) == TRUE

\* crawler.py 142 and 176: link not in self.visited_urls
NotVisited(link) == link \notin visited_urls

\* mutant: every root is taken
FirstRoots_All(links) == SelectSeq(links, IsRoot)

\* category_urls[:3]
FirstRoots(links) ==
    LET cats == SelectSeq(links, IsRoot)
    IN  SubSeq(cats, 1, IF Len(cats) < MaxCategoryRoots
                        THEN Len(cats) ELSE MaxCategoryRoots)

\* mutant: the same call is started twice, side by side
main_crawl_category_Twice ==
    /\ running = Idle
    /\ pc[Main] = "start"
    /\ \E u \in CategoryArgs, mp \in {NoPages} \cup 0..MaxPagesArg :
          /\ category_url' = [category_url EXCEPT ![1] = u, ![2] = u]
          /\ max_pages' = [max_pages EXCEPT ![1] = mp, ![2] = mp]
    /\ pc' = [pc EXCEPT ![Main] = "await_category", ![1] = "begin",
                        ![2] = "begin"]
    /\ UNCHANGED <<shared, running, fetch_vars, main_vars, base_category, page,
                   urls_to_visit, current_url, new_urls, returned, history>>
    /\ UNCHANGED <<trace, filter_vars, scraper_vars>>

\* main.py 48-53: crawl_category(category_url, max_pages) is awaited
main_crawl_category ==
    /\ running = Idle
    /\ pc[Main] = "start"
    /\ \E u \in CategoryArgs, mp \in {NoPages} \cup 0..MaxPagesArg :
          /\ category_url' = [category_url EXCEPT ![1] = u]
          /\ max_pages' = [max_pages EXCEPT ![1] = mp]
    /\ pc' = [pc EXCEPT ![Main] = "await_category", ![1] = "begin"]
    /\ UNCHANGED <<shared, running, fetch_vars, main_vars, base_category, page,
                   urls_to_visit, current_url, new_urls, returned, history>>
    /\ UNCHANGED <<trace, filter_vars, scraper_vars>>

\* main.py 54-56 and crawler.py 197-201: the home page is fetched
main_crawl_all ==
    /\ running = Idle
    /\ pc[Main] = "start"
    /\ FetchCall(Main, BASE_URL)
    /\ UNCHANGED <<max_concurrent, visited_urls, product_urls, main_vars,
                   task_vars, returned, found>>
    /\ UNCHANGED <<first_yield, dequeued, failed, filter_vars, scraper_vars>>

\* mutant: the home page is asked for once more
HomeUnreachable_Again ==
    /\ pc' = [pc EXCEPT ![Main] = "start"]
    /\ failed' = [failed EXCEPT ![Main] = @ \cup {BASE_URL}]
    /\ UNCHANGED <<returned, category_urls, category_url>>

\* crawler.py 203-205: "Failed to fetch home page", return set()
HomeUnreachable ==
    /\ returned' = [returned EXCEPT ![Main] = EmptySet]
    /\ pc' = [pc EXCEPT ![Main] = "done"]
    /\ failed' = [failed EXCEPT ![Main] = @ \cup {BASE_URL}]
    /\ UNCHANGED <<category_urls, category_url>>

\* crawler.py 203-221: no home page, or one traversal per root
home_fetched ==
    /\ running = Main
    /\ pc[Main] = "fetched"
    /\ IF Falsy(html[Main])
       THEN HomeUnreachable
       ELSE LET roots == FirstRoots(extract_links(html[Main], BASE_URL))
            IN  /\ category_urls' = roots
                /\ category_url' = [t \in Tasks |->
                       IF t <= Len(roots) THEN roots[t] ELSE NoUrl]
                /\ pc' = [p \in Procs |->
                       IF p = Main THEN "gather"
                       ELSE IF p <= Len(roots) THEN "begin" ELSE pc[p]]
                /\ UNCHANGED <<returned, failed>>
    /\ running' = Idle
    /\ FetchForget(Main)
    /\ exit' = [exit EXCEPT ![Main] = "none"]
    /\ UNCHANGED <<shared, max_pages, base_category, page, urls_to_visit,
                   current_url, new_urls, fetch_calls, found>>
    /\ UNCHANGED <<first_yield, dequeued, requested, filter_vars, scraper_vars>>

\* crawler.py 159-168
crawl_category_begin(t) ==
    /\ running = Idle
    /\ pc[t] = "begin"
    /\ LET category_info == extract_category_info(category_url[t])
       IN  IF category_info = None
           THEN /\ returned' = [returned EXCEPT ![t] = EmptySet]
                /\ pc' = [pc EXCEPT ![t] = "done"]
                /\ running' = Idle
                /\ UNCHANGED <<base_category, page, urls_to_visit>>
           ELSE LET base == Join(category_info.categories, "/")
                IN  /\ base_category' = [base_category EXCEPT ![t] = base]
                    /\ page' = [page EXCEPT ![t] = 1]
                    /\ urls_to_visit' = [urls_to_visit EXCEPT
                                           ![t] = <<PageUrl(base, 1)>>]
                    /\ pc' = [pc EXCEPT ![t] = "loop"]
                    /\ running' = t
                    /\ UNCHANGED returned
    /\ UNCHANGED <<shared, fetch_vars, main_vars, category_url, max_pages,
                   current_url, new_urls, history>>
    /\ UNCHANGED <<trace, filter_vars, scraper_vars>>

\* how far the model follows the page counter of traversal t
PageBound(t) == IF pc[Main] = "await_category" THEN MaxPageAlone ELSE MaxPage

\* mutant: the page cap is not looked at
LoopCondition_NoCap(t) == urls_to_visit[t] # <<>>

\* the while condition of line 170
LoopCondition(t) ==
    /\ urls_to_visit[t] # <<>>
    /\ (max_pages[t] = NoPages \/ page[t] <= max_pages[t])

\* mutant: the visited test never answers yes
AlreadyVisited_Never(url) == FALSE

\* crawler.py 121-122: the check of crawl_page
AlreadyVisited(url) == url \in visited_urls

\* mutant: the URL is not marked
MarkVisited_Skip(url) == visited_urls

\* mutant: the set is replaced instead of extended
MarkVisited_Replace(url) == {url}

\* crawler.py 124
MarkVisited(url) == visited_urls \cup {url}

\* mutant: the frontier is read from its end
NextUrl_Newest(frontier) == frontier[Len(frontier)]

\* crawler.py 171: the URL that urls_to_visit.pop(0) returns
NextUrl(frontier) == Head(frontier)

\* crawler.py 170-172 and 121-127: dequeue, crawl_page up to its await
crawl_category_next(t) ==
    /\ running = t
    /\ pc[t] = "loop"
    /\ page[t] <= PageBound(t)
    /\ LoopCondition(t)
    /\ LET url == NextUrl(urls_to_visit[t])
       IN  /\ current_url' = [current_url EXCEPT ![t] = url]
           /\ urls_to_visit' = [urls_to_visit EXCEPT ![t] = Tail(@)]
           /\ IF AlreadyVisited(url)
              THEN /\ new_urls' = [new_urls EXCEPT ![t] = <<>>]
                   /\ pc' = [pc EXCEPT ![t] = "crawled"]
                   /\ UNCHANGED <<shared, running, fetch_vars, history,
                                  requested>>
              ELSE /\ visited_urls' = MarkVisited(url)
                   /\ FetchCall(t, url)
                   /\ UNCHANGED <<max_concurrent, product_urls, new_urls, found>>
    /\ dequeued' = [dequeued EXCEPT ![t] = @ + 1]
    /\ UNCHANGED <<main_vars, category_url, max_pages, base_category, page,
                   returned, first_yield, failed>>
    /\ UNCHANGED <<filter_vars, scraper_vars>>

\* crawler.py 188: the loop has ended
crawl_category_return(t) ==
    /\ running = t
    /\ pc[t] = "loop"
    /\ ~LoopCondition(t)
    /\ returned' = [returned EXCEPT ![t] = SharedProducts]
    /\ pc' = [pc EXCEPT ![t] = "done"]
    /\ running' = Idle
    /\ UNCHANGED <<shared, fetch_vars, main_vars, task_vars, history>>
    /\ UNCHANGED <<trace, filter_vars, scraper_vars>>

\* the page counter has reached the bound of the model: the traversal is
\* followed no further
crawl_category_cut(t) ==
    /\ running = t
    /\ pc[t] = "loop"
    /\ LoopCondition(t)
    /\ page[t] > PageBound(t)
    /\ pc' = [pc EXCEPT ![t] = "cut"]
    /\ running' = Idle
    /\ UNCHANGED <<shared, fetch_vars, main_vars, task_vars, returned, history>>
    /\ UNCHANGED <<trace, filter_vars, scraper_vars>>

\* mutant: the URL whose fetch failed is handed back as a link
AbandonedLinks_Retry(u) == <<u>>

\* crawler.py 128-129: what crawl_page returns for u when the fetch gave
\* nothing
AbandonedLinks(u) == <<>>

\* mutant: the links of a product page are followed
ProductPageLinks_Followed(body, u) == extract_links(body, u)

\* crawler.py 135-138: what crawl_page returns for a product page
ProductPageLinks(body, u) == <<>>

\* crawler.py 127-142: crawl_page after its await
page_fetched(t) ==
    /\ running = t
    /\ pc[t] = "fetched"
    /\ LET u == current_url[t]
           body == html[t]
       IN  IF Falsy(body)
           THEN /\ new_urls' = [new_urls EXCEPT ![t] = AbandonedLinks(u)]
                /\ failed' = [failed EXCEPT ![t] = @ \cup {u}]
                /\ UNCHANGED <<product_urls, found>>
           ELSE IF classify_url(u) = "PRODUCT"
           THEN /\ product_urls' = product_urls \cup {u}
                /\ found' = [found EXCEPT ![t] = @ \cup {u}]
                /\ new_urls' = [new_urls EXCEPT ![t] = ProductPageLinks(body, u)]
                /\ UNCHANGED failed
           ELSE /\ new_urls' = [new_urls EXCEPT ![t] =
                       SelectSeq(extract_links(body, u), NotVisited)]
                /\ UNCHANGED <<product_urls, found, failed>>
    /\ pc' = [pc EXCEPT ![t] = "crawled"]
    /\ FetchForget(t)
    /\ UNCHANGED <<max_concurrent, semaphore, visited_urls, running,
                   main_vars, category_url, max_pages, base_category, page,
                   urls_to_visit, current_url, returned, fetch_calls, exit>>
    /\ UNCHANGED <<first_yield, dequeued, requested, filter_vars, scraper_vars>>

\* the links of crawl_page's result that are product URLs
ProductLinks(links) == SelectSeq(links, LAMBDA l : classify_url(l) = "PRODUCT")

\* crawler.py 183-185: is the next page appended
Continue(t, next_page_url, next_page) ==
    /\ next_page_url \notin visited_urls
    /\ next_page > 1
    /\ Cardinality(product_urls) > 0

\* crawler.py 174-186: the rest of the loop body
crawl_category_extend(t) ==
    /\ running = t
    /\ pc[t] = "crawled"
    /\ LET added == SelectSeq(new_urls[t], NotVisited)
           next_page == page[t] + 1
           next_page_url == PageUrl(base_category[t], next_page)
       IN  /\ page' = [page EXCEPT ![t] = next_page]
           /\ urls_to_visit' = [urls_to_visit EXCEPT ![t] =
                  IF Continue(t, next_page_url, next_page)
                  THEN Append(@ \o added, next_page_url)
                  ELSE @ \o added]
    /\ new_urls' = [new_urls EXCEPT ![t] = <<>>]
    /\ current_url' = [current_url EXCEPT ![t] = NoUrl]
    /\ exit' = [exit EXCEPT ![t] = "none"]
    /\ first_yield' = [first_yield EXCEPT ![t] =
           IF dequeued[t] # 1 THEN @
           ELSE IF ProductLinks(new_urls[t]) # <<>> THEN "some" ELSE "none"]
    /\ pc' = [pc EXCEPT ![t] = "loop"]
    /\ UNCHANGED <<shared, running, fetch_vars, main_vars, category_url,
                   max_pages, base_category, returned,
                   fetch_calls, requests, pacings, backoffs, cause, found>>
    /\ UNCHANGED <<dequeued, requested, failed, filter_vars, scraper_vars>>

\* main.py 48-51: crawl_category has returned to crawl_and_scrape
category_awaited ==
    /\ running = Idle
    /\ pc[Main] = "await_category"
    /\ pc[1] = "done"
    /\ returned' = [returned EXCEPT ![Main] = returned[1]]
    /\ pc' = [pc EXCEPT ![Main] = "done"]
    /\ UNCHANGED <<shared, running, fetch_vars, main_vars, task_vars, history>>
    /\ UNCHANGED <<trace, filter_vars, scraper_vars>>

\* crawler.py 221-223: gather has every traversal's result
gather_done ==
    /\ running = Idle
    /\ pc[Main] = "gather"
    /\ \A t \in Tasks : pc[t] \in {"idle", "done"}
    /\ returned' = [returned EXCEPT ![Main] = SharedProducts]
    /\ pc' = [pc EXCEPT ![Main] = "done"]
    /\ UNCHANGED <<shared, running, fetch_vars, main_vars, task_vars, history>>
    /\ UNCHANGED <<trace, filter_vars, scraper_vars>>

\* the arguments of a later call that crawl_category turns down
RejectedArgs == {u \in CategoryArgs : extract_category_info(u) = None}

\* crawler.py 144-148: crawl_category is called again on the same crawler
\* once the first call has returned; the later call is followed for the
\* arguments that do not parse
crawl_category_again ==
    /\ running = Idle
    /\ pc[Main] = "done"
    /\ pc[1] = "done"
    /\ \E u \in RejectedArgs, mp \in {NoPages} \cup 0..MaxPagesArg :
          /\ category_url' = [category_url EXCEPT ![1] = u]
          /\ max_pages' = [max_pages EXCEPT ![1] = mp]
    /\ pc' = [pc EXCEPT ![Main] = "await_category", ![1] = "begin"]
    /\ returned' = [returned EXCEPT ![Main] = Unset, ![1] = Unset]
    /\ base_category' = [base_category EXCEPT ![1] = <<>>]
    /\ page' = [page EXCEPT ![1] = 0]
    /\ urls_to_visit' = [urls_to_visit EXCEPT ![1] = <<>>]
    /\ found' = [found EXCEPT ![1] = {}]
    /\ first_yield' = [first_yield EXCEPT ![1] = "unknown"]
    /\ dequeued' = [dequeued EXCEPT ![1] = 0]
    /\ requested' = [requested EXCEPT ![1] = <<>>]
    /\ failed' = [failed EXCEPT ![1] = {}]
    /\ UNCHANGED <<shared, running, fetch_vars, main_vars, current_url,
                   new_urls, fetch_calls, requests, pacings, backoffs, cause,
                   exit, filter_vars, scraper_vars>>

Next ==
    \/ main_crawl_category
    \/ crawl_category_again
    \/ main_crawl_all
    \/ home_fetched
    \/ category_awaited
    \/ gather_done
    \/ \E t \in Tasks : crawl_category_begin(t)
    \/ \E t \in Tasks : crawl_category_next(t)
    \/ \E t \in Tasks : crawl_category_return(t)
    \/ \E t \in Tasks : crawl_category_cut(t)
    \/ \E t \in Tasks : page_fetched(t)
    \/ \E t \in Tasks : crawl_category_extend(t)
    \/ \E p \in Procs : semaphore_acquire(p)
    \/ \E p \in Procs : pace_done(p)
    \/ \E p \in Procs : response_200(p)
    \/ \E p \in Procs : response_404(p)
    \/ \E p \in Procs : response_other(p)
    \/ \E p \in Procs : request_raises(p)
    \/ \E p \in Procs : response_200_raises(p)
    \/ \E p \in Procs : backoff_done(p)

Spec == Init /\ [][Next]_vars

\* a crawler built with an explicit max_concurrent below the default, the
\* crawlers whose fetch calls can have to wait
ScarceInit == Init /\ max_concurrent < CONCURRENT_REQUESTS

\* the event loop runs a coroutine that is ready, and every sleep and every
\* request comes to its end
FairSpec == ScarceInit /\ [][Next]_vars /\ WF_vars(Next)

(***************************************************************************)
(* The classifier on its own: classify_url is applied to one URL drawn     *)
(* from the hosts and the short paths below.                               *)
(***************************************************************************)
FilterHosts == {SiteHost, BareHost, "", "evil.com"}
PathChars == {"/", "-", "a", "d", "0", "1"}
Paths == UNION {[1..n -> PathChars] : n \in 0..MaxPathLen}
FilterUrls == {Url(h, p) : h \in FilterHosts, p \in Paths}

\* a crawler built with its defaults, and one URL for its url_filter
FilterInit ==
    /\ CrawlerInit
    /\ max_concurrent = CONCURRENT_REQUESTS
    /\ filter_url \in FilterUrls
    /\ url_type = "unset"
    /\ url_info = Unset
    /\ url_id = Unset
    /\ url_crawl = "unset"
    /\ classified_again = FALSE
    /\ ScraperIdle

crawler_vars == <<shared, running, pc, fetch_vars, main_vars, task_vars,
                  returned, history, trace>>

\* str(bool)
BoolStr(b) == IF b THEN "True" ELSE "False"

\* mutant: the filter remembers that it has answered and answers INVALID
\* the second time
classify_Remembering ==
    /\ url_type = "unset" \/ (url_crawl # "unset" /\ ~classified_again)
    /\ url_type' = IF url_type = "unset" THEN classify_url(filter_url)
                   ELSE "INVALID"
    /\ classified_again' = (url_type # "unset")
    /\ UNCHANGED <<crawler_vars, scraper_vars, filter_url, url_info, url_id, url_crawl>>

\* url_filter.py 44-74: classify_url(filter_url) is called, first of all and
\* once more after the other operations of the filter
classify ==
    /\ url_type = "unset" \/ (url_crawl # "unset" /\ ~classified_again)
    /\ url_type' = classify_url(filter_url)
    /\ classified_again' = (url_type # "unset")
    /\ UNCHANGED <<crawler_vars, scraper_vars, filter_url, url_info, url_id, url_crawl>>

\* url_filter.py 76-95: extract_category_info(filter_url) is called
extract_info ==
    /\ url_type # "unset"
    /\ url_info = Unset
    /\ url_info' = extract_category_info(filter_url)
    /\ UNCHANGED <<crawler_vars, scraper_vars, filter_url, url_type, url_id, url_crawl,
                   classified_again>>

\* url_filter.py 97-102: extract_product_id(filter_url) is called
extract_id ==
    /\ url_info # Unset
    /\ url_id = Unset
    /\ url_id' = extract_product_id(filter_url)
    /\ UNCHANGED <<crawler_vars, scraper_vars, filter_url, url_type, url_info, url_crawl,
                   classified_again>>

\* url_filter.py 104-112: should_crawl(filter_url) is called
ask_should_crawl ==
    /\ url_id # Unset
    /\ url_crawl = "unset"
    /\ url_crawl' = BoolStr(should_crawl(filter_url))
    /\ UNCHANGED <<crawler_vars, scraper_vars, filter_url, url_type, url_info, url_id,
                   classified_again>>

FilterNext ==
    \/ classify
    \/ extract_info
    \/ extract_id
    \/ ask_should_crawl

FilterSpec == FilterInit /\ [][FilterNext]_vars

(***************************************************************************)
(* BaseScraper.fetch_page (base_scraper.py 35-53), the fetch of the        *)
(* scraping stage.  It has no semaphore; its loop has one branch for the   *)
(* status 200 and one for every other status, and its backoff sleep        *)
(* stands inside the except block.                                         *)
(***************************************************************************)

\* base_scraper.py 37: range(MAX_RETRIES) has a value after attempt a
ScraperHasNextAttempt(a) == a + 1 < MAX_RETRIES

\* base_scraper.py 50: a backoff sleep follows the exception of attempt a
ScraperBackoffDue(a) == a < MAX_RETRIES - 1

\* base_scraper.py 51: 2 ** attempt
ScraperBackoffDelay(a) == 2 ^ a

\* the statuses other than 200 that a response can carry
OtherStatuses == {"404"} \cup RetryStatuses

\* base_scraper.py 37 and 53: the loop goes to its next attempt, which
\* begins with the pacing sleep, or runs out and the call returns None
ScraperNextAttempt ==
    IF ScraperHasNextAttempt(scraper_attempt)
    THEN /\ scraper_attempt' = scraper_attempt + 1
         /\ scraper_pc' = "pace"
         /\ UNCHANGED scraper_html
    ELSE /\ scraper_pc' = "returned"
         /\ scraper_html' = None
         /\ UNCHANGED scraper_attempt

\* base_scraper.py 35-39: the call begins with attempt 0 and its pacing sleep
scraper_fetch_page ==
    /\ scraper_pc = "idle"
    /\ scraper_pc' = "pace"
    /\ UNCHANGED <<scraper_attempt, scraper_html, scraper_seen,
                   scraper_pacings, scraper_backoffs>>
    /\ UNCHANGED <<crawler_vars, filter_vars>>

\* base_scraper.py 39-41: the pacing sleep ends and the request is sent
scraper_pace_done ==
    /\ scraper_pc = "pace"
    /\ scraper_pacings' = Append(scraper_pacings, RATE_LIMIT_DELAY)
    /\ scraper_pc' = "request"
    /\ UNCHANGED <<scraper_attempt, scraper_html, scraper_seen,
                   scraper_backoffs>>
    /\ UNCHANGED <<crawler_vars, filter_vars>>

\* base_scraper.py 42-43: response.status == 200 and the text is returned
scraper_response_200 ==
    /\ scraper_pc = "request"
    /\ scraper_seen' = Append(scraper_seen, Observed("200", "none"))
    /\ scraper_html' = [kind |-> "text"]
    /\ scraper_pc' = "returned"
    /\ UNCHANGED <<scraper_attempt, scraper_pacings, scraper_backoffs>>
    /\ UNCHANGED <<crawler_vars, filter_vars>>

\* base_scraper.py 44-45: any other status, 404 among them, is logged and
\* the loop goes on with no sleep but the pacing one
scraper_response_other ==
    /\ scraper_pc = "request"
    /\ \E st \in OtherStatuses :
          scraper_seen' = Append(scraper_seen, Observed(st, "none"))
    /\ ScraperNextAttempt
    /\ UNCHANGED <<scraper_pacings, scraper_backoffs>>
    /\ UNCHANGED <<crawler_vars, filter_vars>>

\* base_scraper.py 47-51: session.get (status "none") or response.text()
\* (status "200") raises; the backoff sleep is taken if an attempt remains
scraper_raises ==
    /\ scraper_pc = "request"
    /\ \E st \in {"none", "200"}, e \in Exceptions :
          scraper_seen' = Append(scraper_seen, Observed(st, e))
    /\ IF ScraperBackoffDue(scraper_attempt)
       THEN /\ scraper_pc' = "backoff"
            /\ scraper_backoffs' =
                  Append(scraper_backoffs, ScraperBackoffDelay(scraper_attempt))
            /\ UNCHANGED <<scraper_attempt, scraper_html>>
       ELSE ScraperNextAttempt /\ UNCHANGED scraper_backoffs
    /\ UNCHANGED scraper_pacings
    /\ UNCHANGED <<crawler_vars, filter_vars>>

\* base_scraper.py 51: the backoff sleep ends
scraper_backoff_done ==
    /\ scraper_pc = "backoff"
    /\ ScraperNextAttempt
    /\ UNCHANGED <<scraper_seen, scraper_pacings, scraper_backoffs>>
    /\ UNCHANGED <<crawler_vars, filter_vars>>

ScraperInit ==
    /\ Init
    /\ max_concurrent = CONCURRENT_REQUESTS

ScraperNext ==
    \/ scraper_fetch_page
    \/ scraper_pace_done
    \/ scraper_response_200
    \/ scraper_response_other
    \/ scraper_raises
    \/ scraper_backoff_done

ScraperSpec == ScraperInit /\ [][ScraperNext]_vars

\* crawler.py 61-85: what fetch_page of the crawler does when its requests
\* meet `seen`, from attempt a on, having slept the backoffs `slept`
RECURSIVE CrawlerFetch(_, _, _)
CrawlerFetch(seen, a, slept) ==
    IF a >= Len(seen)
    THEN [requests |-> a, backoffs |-> slept, html |-> Unset]
    ELSE IF seen[a + 1] = Observed("200", "none")
    THEN [requests |-> a + 1, backoffs |-> slept, html |-> [kind |-> "text"]]
    ELSE IF seen[a + 1].status = "404"
    THEN [requests |-> a + 1, backoffs |-> slept, html |-> None]
    ELSE LET after == IF BackoffDue(a)
                      THEN Append(slept, BackoffDelay(a))
                      ELSE slept
         IN  IF HasNextAttempt(a)
             THEN CrawlerFetch(seen, a + 1, after)
             ELSE [requests |-> a + 1, backoffs |-> after,
                   html |-> ExhaustedValue]


(***************************************************************************)
(* Properties.                                                             *)
(***************************************************************************)
\* an attempt that observed c has failed and may be tried again
Retryable(c) ==
    /\ c # Nothing
    /\ c # Observed("200", "none")
    /\ c.status # "404"

\* C1: within one crawl session no URL is handed to fetch_page more than
\* once.
C1_FetchedAtMostOnce ==
    \A u \in DOMAIN fetch_calls : fetch_calls[u] <= 1

\* C2: the fetch calls inside their attempt sequence never outnumber the
\* configured limit, each of them holds one permit from its first pacing
\* sleep to its return, and a call waiting for a permit has slept and
\* requested nothing.
C2_PermitPool ==
    /\ semaphore >= 0
    /\ Cardinality(Holders) <= max_concurrent
    /\ semaphore + Cardinality(Holders) = max_concurrent
    /\ \A p \in Procs :
          /\ pc[p] = "sem_wait" =>
                requests[p] = 0 /\ pacings[p] = <<>> /\ backoffs[p] = <<>>
          /\ (requests[p] > 0 \/ pacings[p] # <<>> \/ backoffs[p] # <<>>) =>
                p \in Holders \/ pc[p] = "fetched"

\* C2 witness: the pool is exhausted, a call waits while another requests
C2_Waiting ==
    \E p, q \in Procs :
        /\ pc[p] = "sem_wait"
        /\ pc[q] = "request"
        /\ semaphore = 0
        /\ Cardinality(Holders) = max_concurrent

\* C3 as stated: at most MAX_RETRIES requests per fetch call, and an attempt
\* that observes status 200 ends the call with that response's content.
C3_First200Ends ==
    \A p \in Procs :
        /\ requests[p] <= MAX_RETRIES
        /\ cause[p].status = "200" =>
              pc[p] = "fetched" /\ exit[p] = "200" /\ html[p].kind = "text"

\* C3 amended: at most MAX_RETRIES requests per fetch call; the first
\* attempt that observes status 200 and reads the body without an exception
\* is the last request of the call, which returns that body; an attempt
\* whose body read raises after status 200 has failed like any other and
\* does not end the call with content.
C3_First200ReadEnds ==
    \A p \in Procs :
        /\ requests[p] <= MAX_RETRIES
        /\ cause[p] = Observed("200", "none") =>
              /\ pc[p] = "fetched"
              /\ exit[p] = "200"
              /\ html[p] \in BodiesOf(fetch_url[p])
              /\ requests[p] = attempt[p] + 1
        /\ (cause[p].status = "200" /\ cause[p].raised # "none") =>
              /\ exit[p] # "200"
              /\ pc[p] = "fetched" => html[p] = None
        /\ exit[p] = "200" /\ pc[p] = "fetched" =>
              cause[p] = Observed("200", "none")

\* C3 witness: a call has returned the body of its second request
C3_SucceededOnRetry ==
    \E p \in Procs :
        /\ pc[p] = "fetched"
        /\ cause[p] = Observed("200", "none")
        /\ requests[p] = 2

\* C4: an attempt that observes status 404 ends the call with None: no
\* request and no backoff sleep follows it.
C4_NotFoundEnds ==
    \A p \in Procs :
        cause[p].status = "404" =>
            /\ pc[p] = "fetched"
            /\ exit[p] = "404"
            /\ html[p] = None
            /\ requests[p] = attempt[p] + 1
            /\ Len(backoffs[p]) = attempt[p]

\* C4 witness: a 404 on the first attempt, two attempts left unused
C4_NotFoundFirst ==
    \E p \in Procs :
        pc[p] = "fetched" /\ cause[p].status = "404" /\ attempt[p] = 0

\* C5: the failed attempt i (0-indexed) is followed by a backoff sleep of
\* 2^i exactly when another attempt remains: a call at attempt i has slept
\* 2^0 .. 2^(i-1), and none follows the last attempt.
C5_Backoff ==
    \A p \in Procs :
        /\ \A i \in 1..Len(backoffs[p]) : backoffs[p][i] = 2 ^ (i - 1)
        /\ pc[p] = "backoff" =>
              /\ Len(backoffs[p]) = attempt[p] + 1
              /\ attempt[p] + 1 < MAX_RETRIES
              /\ Retryable(cause[p])
        /\ pc[p] \in {"pace", "request", "fetched"} =>
              Len(backoffs[p]) = attempt[p]
        /\ (pc[p] = "fetched" /\ exit[p] = "exhausted") =>
              /\ attempt[p] = MAX_RETRIES - 1
              /\ requests[p] = MAX_RETRIES
              /\ Retryable(cause[p])

\* C5 witness: two failures, backoffs of 1 and 2, success on the third
C5_ThirdAttemptSucceeds ==
    \E p \in Procs :
        /\ pc[p] = "fetched"
        /\ exit[p] = "200"
        /\ html[p].kind = "text"
        /\ requests[p] = 3
        /\ backoffs[p] = <<1, 2>>

\* C6: every request of a fetch call, the first and the retries, comes
\* straight after one pacing sleep of RATE_LIMIT_DELAY slept under the
\* call's permit.
C6_PacedRequests ==
    \A p \in Procs :
        /\ Len(pacings[p]) = requests[p]
        /\ \A i \in 1..Len(pacings[p]) : pacings[p][i] = RATE_LIMIT_DELAY
        /\ pc[p] = "pace" => requests[p] = attempt[p]
        /\ pc[p] = "request" => requests[p] = attempt[p] + 1
        /\ requests[p] > 0 => p \in Holders \/ pc[p] = "fetched"

\* C6 witness: the third request of a call is out
C6_ThirdRequest ==
    \E p \in Procs :
        pc[p] = "request" /\ requests[p] = 3 /\ Len(pacings[p]) = 3

\* the value v carries the cause c
Carries(v, c) == "cause" \in DOMAIN v /\ v.cause = c

\* C7 as stated: a fetch whose attempts are all used up returns a failure
\* that carries the cause of the last attempt.
C7_FailureCarriesCause ==
    \A p \in Procs :
        (pc[p] = "fetched" /\ exit[p] = "exhausted") =>
            Carries(html[p], cause[p])

\* C7 amended: a fetch whose attempts are all used up returns None, the
\* value a 404 returns too, whatever the last attempt observed; crawl_page
\* then returns no link.
C7_FailureIsNone ==
    /\ \A p \in Procs :
          (pc[p] = "fetched" /\ exit[p] \in {"exhausted", "404"}) =>
              html[p] = None
    /\ \A p \in Procs :
          (pc[p] = "fetched" /\ exit[p] = "exhausted") =>
              requests[p] = MAX_RETRIES /\ Retryable(cause[p])
    /\ \A t \in Tasks :
          (pc[t] = "crawled" /\ exit[t] \in {"exhausted", "404"}) =>
              new_urls[t] = <<>>

\* C7 witness: a call has run out of attempts, the last one timed out
C7_Exhausted ==
    \E p \in Procs :
        /\ pc[p] = "fetched"
        /\ exit[p] = "exhausted"
        /\ cause[p] = Observed("none", "Timeout")

\* C8: every recorded product URL has been marked visited.
C8_ProductsVisited == product_urls \subseteq visited_urls

\* C8 witness: a product has been recorded
C8_ProductRecorded == product_urls # {}

\* C9: no step takes a URL out of visited_urls.
C9_VisitedGrows == [][visited_urls \subseteq visited_urls']_vars

\* C9 witness: a fetch has failed and its URL is still marked, among others
C9_FailedStaysVisited ==
    \E t \in Tasks :
        /\ pc[t] = "crawled"
        /\ exit[t] = "exhausted"
        /\ current_url[t] \in visited_urls
        /\ Cardinality(visited_urls) >= 2

\* the products recorded so far by the traversals of t's category path
FoundForCategory(t) ==
    UNION {found[s] : s \in {r \in Tasks : base_category[r] = base_category[t]}}

\* C10: after each processed URL the next page of the category is appended
\* exactly when it is not visited and a product has been recorded for this
\* category; products recorded by the traversals of other categories do not
\* count.
C10_OwnProductsOnly ==
    [][\A t \in Tasks :
          (pc[t] = "crawled" /\ pc'[t] = "loop") =>
              LET added == SelectSeq(new_urls[t], NotVisited)
                  next_page_url == PageUrl(base_category[t], page[t] + 1)
              IN  urls_to_visit'[t] =
                      IF /\ next_page_url \notin visited_urls
                         /\ FoundForCategory(t) # {}
                      THEN Append(urls_to_visit[t] \o added, next_page_url)
                      ELSE urls_to_visit[t] \o added]_vars

\* page n of the category that traversal t walks
CategoryPage(t, n) == PageUrl(base_category[t], n)

\* the elements of a sequence
Range(seq) == {seq[i] : i \in 1..Len(seq)}

\* C11: a traversal whose first page yielded no product link never requests
\* page 2 of its category.
C11_NoSecondPage ==
    \A t \in Tasks :
        first_yield[t] = "none" => CategoryPage(t, 2) \notin Range(requested[t])

\* the steps of a fetch call in progress
InFetch == {"sem_wait", "pace", "request", "backoff"}

\* C12: a traversal with page cap N dequeues at most N URLs and makes at most
\* as many fetch calls as it has dequeued URLs (none for N = 0); once N URLs
\* are dequeued it takes no further URL, a fetch in progress runs to its end
\* whatever the cap is, and the traversal returns from the head of its loop
\* only.
C12_PageCap ==
    /\ [](\A t \in Tasks :
            /\ Len(requested[t]) <= dequeued[t]
            /\ max_pages[t] # NoPages => dequeued[t] <= max_pages[t])
    /\ [][\A t \in Tasks :
            /\ (pc[t] \in InFetch) => (pc'[t] \in InFetch \cup {"fetched"})
            /\ (pc[t] # "done" /\ pc'[t] = "done") => pc[t] \in {"begin", "loop"}
            /\ (/\ pc[t] = "loop"
                /\ max_pages[t] # NoPages
                /\ dequeued[t] >= max_pages[t]) =>
                   pc'[t] \in {"loop", "done"}]_vars

\* C12 witness: the cap of 1 has ended a traversal whose frontier still holds
\* URLs
C12_CapStops ==
    \E t \in Tasks :
        /\ max_pages[t] = 1
        /\ pc[t] = "done"
        /\ dequeued[t] = 1
        /\ Len(requested[t]) = 1
        /\ urls_to_visit[t] # <<>>

\* the set a caller reads from what coroutine p returned
Result(p) == IF returned[p] = SharedProducts THEN product_urls ELSE {}

\* C13: a call of crawl_category whose category URL does not parse returns an
\* empty set, has called fetch_page for nothing and has changed neither
\* visited_urls nor product_urls, also on a crawler that has recorded
\* products before.
C13_RejectedArgument ==
    /\ [](\A t \in Tasks :
            (pc[t] = "done" /\ extract_category_info(category_url[t]) = None) =>
                /\ Result(t) = {}
                /\ requested[t] = <<>>
                /\ dequeued[t] = 0)
    /\ [][\A t \in Tasks :
            (/\ pc[t] = "begin"
             /\ pc'[t] # "begin"
             /\ extract_category_info(category_url[t]) = None) =>
                /\ pc'[t] = "done"
                /\ visited_urls' = visited_urls
                /\ product_urls' = product_urls
                /\ fetch_calls' = fetch_calls]_vars

\* C13 witness: a call with a URL that does not parse has returned on a
\* crawler whose product set is not empty
C13_RejectedAfterProducts ==
    /\ pc[1] = "done"
    /\ extract_category_info(category_url[1]) = None
    /\ returned[1] = EmptySet
    /\ product_urls # {}

\* what crawl_all_categories hands back when it found no product
NoProductResult == {}

\* C14 as stated: when the home page fetch has failed, no traversal is
\* started, nothing else is fetched, and the result differs from the result
\* of a run that found no product.
C14_FailureToldApart ==
    failed[Main] # {} =>
        /\ pc[Main] = "done"
        /\ \A t \in Tasks : pc[t] = "idle" /\ requested[t] = <<>>
        /\ requested[Main] = <<BASE_URL>>
        /\ Result(Main) # NoProductResult

\* C14 amended: when the home page fetch has failed, crawl_all_categories
\* has returned, no traversal is started, the home page is the one URL
\* handed to fetch_page, and the result is an empty set, the value a run that
\* found no product returns too.
C14_FailureIsEmptySet ==
    failed[Main] # {} =>
        /\ pc[Main] = "done"
        /\ \A t \in Tasks : pc[t] = "idle" /\ requested[t] = <<>>
        /\ requested[Main] = <<BASE_URL>>
        /\ DOMAIN fetch_calls = {BASE_URL}
        /\ fetch_calls[BASE_URL] = 1
        /\ visited_urls = {} /\ product_urls = {}
        /\ returned[Main] = EmptySet
        /\ Result(Main) = NoProductResult

\* C14 witness: crawl_all_categories has returned after a failed home fetch
C14_HomeFailed ==
    /\ pc[Main] = "done"
    /\ failed[Main] = {BASE_URL}
    /\ returned[Main] = EmptySet

\* how often u occurs in seq
Occurrences(seq, u) == Cardinality({i \in 1..Len(seq) : seq[i] = u})

\* seq begins with prefix
StartsWith(seq, prefix) ==
    /\ Len(prefix) <= Len(seq)
    /\ SubSeq(seq, 1, Len(prefix)) = prefix

\* C15: a URL whose fetch failed inside a traversal stays in visited_urls, is
\* not in product_urls, gave no link, and was handed to fetch_page once by
\* that traversal and by no other; the traversal goes back to its loop with
\* the rest of its frontier, and when it returns it returns product_urls.
C15_FailureAbsorbed ==
    /\ [](\A t \in Tasks :
            /\ failed[t] \subseteq visited_urls
            /\ failed[t] \cap product_urls = {}
            /\ \A u \in failed[t] :
                  /\ Occurrences(requested[t], u) = 1
                  /\ \A s \in Tasks \ {t} : Occurrences(requested[s], u) = 0
            /\ (pc[t] = "crawled" /\ current_url[t] \in failed[t]) =>
                  new_urls[t] = <<>>
            /\ (pc[t] = "done" /\ failed[t] # {}) =>
                  returned[t] = SharedProducts /\ Result(t) = product_urls)
    /\ [][\A t \in Tasks :
            (/\ pc[t] = "crawled"
             /\ current_url[t] \in failed[t]
             /\ pc'[t] # "crawled") =>
                /\ pc'[t] = "loop"
                /\ StartsWith(urls_to_visit'[t], urls_to_visit[t])]_vars

\* C15 witness: a traversal has returned the product set after a fetch of
\* its own failed and a later URL of its frontier was fetched
C15_WentOn ==
    \E t \in Tasks :
        /\ pc[t] = "done"
        /\ returned[t] = SharedProducts
        /\ \E i \in 1..(Len(requested[t]) - 1) : requested[t][i] \in failed[t]

\* C16: every URL in a traversal frontier, and every URL a traversal hands
\* to fetch_page, is one that should_crawl accepts.
C16_FrontierCrawlable ==
    \A t \in Tasks :
        /\ \A i \in 1..Len(urls_to_visit[t]) : should_crawl(urls_to_visit[t][i])
        /\ \A i \in 1..Len(requested[t]) : should_crawl(requested[t][i])

\* the page numbers a traversal of the model can ask for
PageNumbers == 1..(MaxPageAlone + 1)

\* C17: the pages of its own category that a traversal requests come in
\* non-decreasing page-number order.
C17_PageOrder ==
    \A t \in Tasks :
        \A i, j \in 1..Len(requested[t]) :
            \A m, n \in PageNumbers :
                (/\ i < j
                 /\ requested[t][i] = CategoryPage(t, m)
                 /\ requested[t][j] = CategoryPage(t, n)) => m <= n

\* C18 as stated: a product URL whose fetch came back with status 200 is
\* recorded in product_urls and gives no link.
C18_FetchedProductIsLeaf ==
    [][\A t \in Tasks :
          (/\ pc[t] = "fetched"
           /\ pc'[t] = "crawled"
           /\ exit[t] = "200"
           /\ classify_url(current_url[t]) = "PRODUCT") =>
              /\ current_url[t] \in product_urls'
              /\ new_urls'[t] = <<>>]_vars

\* C18 amended: a product URL whose fetch came back with non-empty content
\* is recorded in product_urls and gives no link, whatever links the content
\* holds, so that the frontier gets at most the continuation page after it;
\* a product URL whose fetch came back empty or failed is not recorded.
C18_ProductWithContentIsLeaf ==
    [][\A t \in Tasks :
          /\ (/\ pc[t] = "fetched"
              /\ pc'[t] = "crawled"
              /\ classify_url(current_url[t]) = "PRODUCT") =>
                 /\ new_urls'[t] = <<>>
                 /\ ~Falsy(html[t]) =>
                        product_urls' = product_urls \cup {current_url[t]}
                 /\ Falsy(html[t]) => product_urls' = product_urls
          /\ (/\ pc[t] = "crawled"
              /\ pc'[t] = "loop"
              /\ classify_url(current_url[t]) = "PRODUCT") =>
                 urls_to_visit'[t] \in
                     { urls_to_visit[t],
                       Append(urls_to_visit[t], CategoryPage(t, page[t] + 1)) }]_vars

\* C18 witness: a product page has been fetched and recorded, and crawl_page
\* has returned no link for it
C18_LeafRecorded ==
    \E t \in Tasks :
        /\ pc[t] = "crawled"
        /\ exit[t] = "200"
        /\ classify_url(current_url[t]) = "PRODUCT"
        /\ current_url[t] \in product_urls
        /\ new_urls[t] = <<>>

\* the positions of the links that are category or subcategory roots
RootPositions(links) == {i \in 1..Len(links) : IsRoot(links[i])}

\* the position of the k-th root among the links
RootPosition(links, k) ==
    CHOOSE i \in RootPositions(links) :
        Cardinality({j \in RootPositions(links) : j <= i}) = k

EndsInProductId(path, k) ==
    /\ k >= 1
    /\ Len(path) >= k + 2
    /\ path[Len(path) - k - 1] = "-"
    /\ path[Len(path) - k] = "d"
    /\ \A i \in (Len(path) - k + 1)..Len(path) : path[i] \in Digit

\* C20: a URL of the site (host www.ouedkniss.com, ouedkniss.com or none)
\* whose path ends in a dash, the letter d and one or more digits is typed
\* PRODUCT.
C20_ProductSuffixWins ==
    (/\ url_type # "unset"
     /\ filter_url.host \in {"www.ouedkniss.com", "ouedkniss.com", ""}
     /\ \E k \in 1..MaxPathLen : EndsInProductId(filter_url.path, k)) =>
        url_type = "PRODUCT"

\* C20 witness: a path with a slash inside and two digits after -d has been
\* typed PRODUCT
C20_TwoDigitProduct ==
    /\ url_type = "PRODUCT"
    /\ filter_url.host = "ouedkniss.com"
    /\ EndsInProductId(filter_url.path, 2)
    /\ filter_url.path[1] = "/"

\* the hosts the site answers on, and no host at all (a relative URL)
SameSite(url) == url.host \in {"www.ouedkniss.com", "ouedkniss.com", ""}

\* path is /<slug>/<n> with the second slash at k: a slug of lowercase letters
\* and dashes, then digits
SlugThenNumber(path, k) ==
    /\ k \in 3..(Len(path) - 1)
    /\ path[1] = "/"
    /\ path[k] = "/"
    /\ \A i \in 2..(k - 1) : path[i] \in Lower \cup {"-"}
    /\ \A i \in (k + 1)..Len(path) : path[i] \in Digit

Dashes(s) == {i \in 1..Len(s) : s[i] = "-"}

\* C21: for a same-site URL whose path is /<slug>/<n>, the type is CATEGORY
\* when the slug has no dash and SUBCATEGORY when it has one or more, and
\* extract_category_info returns the pieces of the slug between its dashes,
\* one more than there are dashes, so that the type is CATEGORY exactly when
\* one segment is returned.
C21_DepthFromDashes ==
    \A k \in 1..MaxPathLen :
        (/\ url_info # Unset
         /\ SameSite(filter_url)
         /\ SlugThenNumber(filter_url.path, k)) =>
            LET slug == SubSeq(filter_url.path, 2, k - 1)
            IN  /\ url_type = IF Dashes(slug) = {} THEN "CATEGORY"
                                                   ELSE "SUBCATEGORY"
                /\ url_info # None
                /\ Join(url_info.categories, "-") = slug
                /\ \A i \in 1..Len(url_info.categories) :
                       Dashes(url_info.categories[i]) = {}
                /\ Len(url_info.categories) - 1 = Cardinality(Dashes(slug))
                /\ url_type = "CATEGORY" <=> Len(url_info.categories) = 1

\* C21 witness: a slug with a dash has been typed SUBCATEGORY and split in two
C21_TwoSegments ==
    /\ url_type = "SUBCATEGORY"
    /\ url_info # Unset
    /\ url_info # None
    /\ filter_url.host = "www.ouedkniss.com"
    /\ Len(url_info.categories) = 2
    /\ url_info.categories[1] = <<"a">>

\* path is /<slug>-<n> with the last dash at k: one path segment, a slug of
\* lowercase letters and dashes, a dash, then a positive integer
SlugDashNumber(path, k) ==
    /\ k \in 3..(Len(path) - 1)
    /\ path[1] = "/"
    /\ path[k] = "-"
    /\ \A i \in 2..(k - 1) : path[i] \in Lower \cup {"-"}
    /\ \A i \in (k + 1)..Len(path) : path[i] \in Digit
    /\ \E i \in (k + 1)..Len(path) : path[i] # "0"

\* C22 as stated: for a same-site URL whose path is /<slug>-<n>,
\* extract_category_info returns the slug split on dashes together with n,
\* and the type is CATEGORY for a slug of one token and SUBCATEGORY for a
\* slug of several.
C22_DashedPageNumber ==
    \A k \in 1..MaxPathLen :
        (/\ url_info # Unset
         /\ SameSite(filter_url)
         /\ SlugDashNumber(filter_url.path, k)) =>
            LET slug == SubSeq(filter_url.path, 2, k - 1)
                n == SubSeq(filter_url.path, k + 1, Len(filter_url.path))
            IN  /\ url_info = [kind |-> "info",
                               categories |-> Split(slug, "-"),
                               page_num |-> ParseInt(n)]
                /\ url_type = IF Dashes(slug) = {} THEN "CATEGORY"
                                                   ELSE "SUBCATEGORY"

\* C22 amended: for a same-site URL whose path is /<slug>-<n>,
\* extract_category_info returns None and the type is INVALID; the page
\* number is read only from a second path segment.
C22_DashedNumberIsInvalid ==
    \A k \in 1..MaxPathLen :
        (/\ url_info # Unset
         /\ SameSite(filter_url)
         /\ SlugDashNumber(filter_url.path, k)) =>
            /\ url_info = None
            /\ url_type = "INVALID"

\* C22 witness: /a-1 on the site's host has been classified and searched for
\* category information
C22_OneTokenDashOne ==
    /\ url_info # Unset
    /\ url_type = "INVALID"
    /\ filter_url = Url("www.ouedkniss.com", <<"/", "a", "-", "1">>)

\* C23: should_crawl answers True exactly for the URLs typed HOME, CATEGORY,
\* SUBCATEGORY or PRODUCT and False exactly for those typed INVALID or
\* PAGINATION.
C23_CrawlIffTyped ==
    url_crawl # "unset" =>
        /\ url_crawl \in {"True", "False"}
        /\ url_crawl = "True" <=>
               url_type \in {"HOME", "CATEGORY", "SUBCATEGORY", "PRODUCT"}
        /\ url_crawl = "False" <=> url_type \in {"INVALID", "PAGINATION"}

\* C23 witness: should_crawl has answered True for a product URL
C23_ProductIsCrawled ==
    /\ url_crawl = "True"
    /\ url_type = "PRODUCT"

\* the path has one of the shapes the classifier knows: the home page, a
\* product page or a category page
KnownShape(path) ==
    \/ path \in {<<>>, <<"/">>}
    \/ \E k \in 1..MaxPathLen : EndsInProductId(path, k)
    \/ \E k \in 1..MaxPathLen : SlugThenNumber(path, k)

\* C24: a URL whose host is neither www.ouedkniss.com nor ouedkniss.com nor
\* empty is typed INVALID whatever its path, and a URL without host is typed
\* INVALID only when its path has none of the known shapes.
C24_ForeignHostInvalid ==
    url_type # "unset" =>
        /\ filter_url.host \notin {"www.ouedkniss.com", "ouedkniss.com", ""}
              => url_type = "INVALID"
        /\ filter_url.host = ""
              => (url_type = "INVALID" <=> ~KnownShape(filter_url.path))

\* C24 witness: a product-shaped path on a foreign host has been typed INVALID
C24_ForeignProduct ==
    /\ url_type = "INVALID"
    /\ filter_url.host = "evil.com"
    /\ EndsInProductId(filter_url.path, 1)

\* where the last "-d" of the path starts, 0 when it has none
LastDashD(path) ==
    LET ks == {i \in 1..(Len(path) - 1) : path[i] = "-" /\ path[i + 1] = "d"}
    IN  IF ks = {} THEN 0 ELSE CHOOSE i \in ks : \A j \in ks : j <= i

\* C25: for a URL typed PRODUCT, extract_product_id returns the digits that
\* follow the last "-d" of the path, and for a path that does not end in
\* -d<digits> it returns None.
C25_IdAfterLastDashD ==
    url_id # Unset =>
        /\ url_type = "PRODUCT" =>
              /\ LastDashD(filter_url.path) # 0
              /\ url_id = [kind |-> "id",
                           digits |-> SubSeq(filter_url.path,
                                             LastDashD(filter_url.path) + 2,
                                             Len(filter_url.path))]
              /\ url_id.digits # <<>>
              /\ \A i \in 1..Len(url_id.digits) : url_id.digits[i] \in Digit
        /\ (~\E k \in 1..MaxPathLen : EndsInProductId(filter_url.path, k))
              => url_id = None

\* C25 witness: the id 10 has been read from a product URL
C25_IdTen ==
    /\ url_type = "PRODUCT"
    /\ url_id = [kind |-> "id", digits |-> <<"1", "0">>]

C27_PageNumberPositive ==
    url_info # Unset =>
        /\ url_info # None => url_info.page_num >= 1
        /\ \A k \in 1..MaxPathLen :
              (/\ SlugThenNumber(filter_url.path, k)
               /\ \A i \in (k + 1)..Len(filter_url.path) :
                      filter_url.path[i] = "0")
                 => url_type \notin {"CATEGORY", "SUBCATEGORY"}

\* C28: crawl_page tests and marks a URL in one step: the call that hands a
\* URL to fetch_page found it unvisited and has marked it when it suspends,
\* a call on a visited URL returns no link and hands nothing to fetch_page,
\* and so no URL is handed to fetch_page by two traversals, or twice by one.
C28_TestAndMark ==
    /\ [](\A t \in Tasks :
             /\ Range(requested[t]) \subseteq visited_urls
             /\ Cardinality(Range(requested[t])) = Len(requested[t])
             /\ \A o \in Tasks \ {t} :
                    Range(requested[t]) \cap Range(requested[o]) = {})
    /\ [][\A t \in Tasks :
             dequeued'[t] = dequeued[t] + 1 =>
                 LET u == Head(urls_to_visit[t])
                 IN  IF u \in visited_urls
                     THEN /\ pc'[t] = "crawled"
                          /\ new_urls'[t] = <<>>
                          /\ requested' = requested
                          /\ fetch_calls' = fetch_calls
                     ELSE /\ u \in visited_urls'
                          /\ requested'[t] = Append(requested[t], u)
                          /\ pc'[t] \in InFetch]_vars

\* C28 witness: two traversals started together had the same URL at the head
\* of their frontiers; one is fetching it, the other has come back from
\* crawl_page with no link and without a fetch
C28_OneFetchesOneSkips ==
    \E t1, t2 \in Tasks :
        /\ t1 # t2
        /\ pc[Main] = "gather"
        /\ pc[t1] \in InFetch
        /\ current_url[t2] = current_url[t1]
        /\ pc[t2] = "crawled"
        /\ new_urls[t2] = <<>>
        /\ requested[t1] = <<current_url[t1]>>
        /\ requested[t2] = <<>>

\* C29: the continuation enqueued at the end of an iteration is the page
\* after the category page that the iteration processed, and the page before
\* the one enqueued was requested earlier.
C29_ConsecutivePages ==
    [][\A t \in Tasks :
          (/\ pc[t] = "crawled"
           /\ pc'[t] = "loop"
           /\ Continue(t, CategoryPage(t, page[t] + 1), page[t] + 1)) =>
              /\ urls_to_visit'[t] # <<>>
              /\ urls_to_visit'[t][Len(urls_to_visit'[t])]
                     = CategoryPage(t, page[t] + 1)
              /\ current_url[t] = CategoryPage(t, page[t])
              /\ CategoryPage(t, page[t]) \in visited_urls]_vars

\* C30: a traversal without cap runs its frontier empty once the pages of the
\* site are exhausted: an iteration whose URL answered 404 leaves the
\* frontier as the dequeue left it, one URL shorter than before.
C30_MissingPageAddsNothing ==
    [][\A t \in Tasks :
          (/\ pc[t] = "crawled"
           /\ pc'[t] = "loop"
           /\ max_pages[t] = NoPages
           /\ exit[t] = "404") =>
              urls_to_visit'[t] = urls_to_visit[t]]_vars

\* the reason behind it (holds): in a first call without cap, once a product
\* is recorded the frontier is never empty at the head of the loop, so the
\* loop condition of crawler.py 170 never fails
NeverDrains ==
    (/\ pc[Main] = "await_category"
     /\ pc[1] = "loop"
     /\ max_pages[1] = NoPages
     /\ page[1] <= PageBound(1)
     /\ product_urls # {}) => urls_to_visit[1] # <<>>

\* C31: the root page URL that an accepted crawl_category call seeds its
\* frontier with parses back to the category path of the argument with page
\* number 1, and has the type of the argument.
C31_RootParsesBack ==
    [][\A t \in Tasks :
          (pc[t] = "begin" /\ pc'[t] = "loop") =>
              /\ Len(urls_to_visit'[t]) = 1
              /\ extract_category_info(Head(urls_to_visit'[t])) =
                     [kind |-> "info",
                      categories |->
                          extract_category_info(category_url[t]).categories,
                      page_num |-> 1]
              /\ classify_url(Head(urls_to_visit'[t])) =
                     classify_url(category_url[t])]_vars

\* C32: a frontier is first in, first out: a dequeue takes the URL at the
\* front and leaves the rest in order, every other step of the traversal
\* keeps what is queued and adds at the back only, and a dequeued URL that
\* is already visited is dropped without a fetch call.
C32_FirstInFirstOut ==
    [][\A t \in Tasks :
          /\ dequeued'[t] = dequeued[t] + 1 =>
                /\ urls_to_visit[t] # <<>>
                /\ current_url'[t] = urls_to_visit[t][1]
                /\ urls_to_visit'[t] =
                       SubSeq(urls_to_visit[t], 2, Len(urls_to_visit[t]))
                /\ urls_to_visit[t][1] \in visited_urls =>
                       /\ fetch_calls' = fetch_calls
                       /\ requested' = requested
                       /\ pc'[t] = "crawled"
          /\ (dequeued'[t] = dequeued[t] /\ pc'[t] # "begin") =>
                StartsWith(urls_to_visit'[t], urls_to_visit[t])]_vars

\* C32 witness: page /a/1 gave the same product link twice; the second copy,
\* queued before the continuation page /a/3, has been dequeued before it and
\* dropped without a fetch
C32_DuplicateDroppedInOrder ==
    /\ pc[1] = "crawled"
    /\ dequeued[1] = 3
    /\ current_url[1] = normalize_url(Prod1)
    /\ requested[1] = <<CategoryPage(1, 1), normalize_url(Prod1)>>
    /\ urls_to_visit[1] = <<CategoryPage(1, 3)>>

\* C33: the URLs that an iteration appends to its frontier, discovered links
\* and continuation page alike, are not in visited_urls when they are
\* appended, and a URL is handed to fetch_page only if the dequeue finds it
\* unvisited, whatever the frontier holds.
C33_AppendedUnvisited ==
    [][\A t \in Tasks :
          /\ (pc[t] = "crawled" /\ pc'[t] = "loop") =>
                \A i \in (Len(urls_to_visit[t]) + 1)..Len(urls_to_visit'[t]) :
                    urls_to_visit'[t][i] \notin visited_urls
          /\ requested'[t] # requested[t] /\ requested'[t] # <<>> =>
                requested'[t][Len(requested'[t])] \notin visited_urls]_vars

\* C33 witness: page /a/1 gave the same product link twice and both copies
\* were appended; the first is being fetched and is marked, the second is
\* still queued
C33_QueuedCopyOfVisited ==
    /\ pc[1] \in InFetch
    /\ dequeued[1] = 2
    /\ current_url[1] = normalize_url(Prod1)
    /\ current_url[1] \in visited_urls
    /\ urls_to_visit[1] = <<current_url[1]>>

\* C34: every element of product_urls is typed PRODUCT, is marked visited and
\* is no URL whose fetch failed; the set changes only by gaining the URL of a
\* traversal whose fetch has just returned a non-empty body with status 200,
\* and it never loses an element.
C34_ProductsWereFetched ==
    /\ [](\A u \in product_urls :
             /\ classify_url(u) = "PRODUCT"
             /\ u \in visited_urls
             /\ \A t \in Tasks : u \notin failed[t])
    /\ [][/\ product_urls \subseteq product_urls'
          /\ product_urls' # product_urls =>
                \E t \in Tasks :
                    /\ pc[t] = "fetched"
                    /\ exit[t] = "200"
                    /\ html[t].kind = "text"
                    /\ html[t].empty = FALSE
                    /\ classify_url(current_url[t]) = "PRODUCT"
                    /\ product_urls' = product_urls \cup {current_url[t]}]_vars

\* C34 witness: the fetch of a product URL came back with status 200 and an
\* empty body, and the URL has not been recorded
C34_EmptyProductPage ==
    /\ pc[1] = "crawled"
    /\ exit[1] = "200"
    /\ classify_url(current_url[1]) = "PRODUCT"
    /\ current_url[1] \in failed[1]
    /\ product_urls = {}

InFlight == {p \in Procs : pc[p] \in InFetch}

\* C36: a traversal calls fetch_page only from the head of its loop, after
\* its previous call has returned; a single crawl_category call has at most
\* one fetch call in flight; crawl_all_categories has its home-page fetch in
\* flight alone, and afterwards at most one call per traversal it started,
\* MaxCategoryRoots at most, whatever max_concurrent is.
C36_OneFetchPerTraversal ==
    /\ [](/\ Cardinality(InFlight) <= MaxCategoryRoots
          /\ pc[Main] # "gather" => Cardinality(InFlight) <= 1
          /\ pc[Main] = "gather" =>
                /\ InFlight \subseteq 1..Len(category_urls)
                /\ Cardinality(InFlight) <= Len(category_urls))
    /\ [][\A t \in Tasks :
             requested'[t] # requested[t] /\ requested'[t] # <<>> =>
                 /\ pc[t] = "loop"
                 /\ pc'[t] \in InFetch
                 /\ Len(requested'[t]) = Len(requested[t]) + 1]_vars

\* C36 witness: of three traversals started together two have a fetch call
\* in flight, each with a permit, and three permits of the default five are
\* free
C36_TwoInFlight ==
    /\ pc[Main] = "gather"
    /\ Len(category_urls) = MaxCategoryRoots
    /\ max_concurrent = CONCURRENT_REQUESTS
    /\ Cardinality(InFlight) = 2
    /\ \A t \in InFlight : pc[t] \in {"pace", "request", "backoff"}
    /\ semaphore = CONCURRENT_REQUESTS - 2

\* classify_url with the category test made before the product test
classify_url_CategoryFirst(url) ==
    IF ~is_valid_domain(url) THEN "INVALID"
    ELSE IF url.path = <<"/">> \/ url.path = <<>> THEN "HOME"
    ELSE IF category_match(url.path)
         THEN IF Count(category_group1(url.path), "-") = 0
              THEN "CATEGORY" ELSE "SUBCATEGORY"
    ELSE IF ProductSuffix(url.path) # 0 THEN "PRODUCT"
    ELSE "INVALID"

\* C37: no path both ends in -d<digits> and is /<slug>/<n>, and the type
\* that classify_url gives is the type it would give with the category test
\* made first.
C37_ShapesDisjoint ==
    url_type # "unset" =>
        /\ \A k, j \in 1..MaxPathLen :
               ~(/\ EndsInProductId(filter_url.path, k)
                 /\ SlugThenNumber(filter_url.path, j))
        /\ ~(ProductSuffix(filter_url.path) # 0
                /\ category_match(filter_url.path))
        /\ url_type = classify_url_CategoryFirst(filter_url)

\* C37 witness: the path /-d/1, whose slug is -d, has been typed
\* SUBCATEGORY
C37_SlugDashD ==
    /\ url_type = "SUBCATEGORY"
    /\ filter_url = Url("www.ouedkniss.com", <<"/", "-", "d", "/", "1">>)

\* C38: classify_url answers every URL with one of HOME, CATEGORY,
\* SUBCATEGORY, PRODUCT and INVALID, and never with PAGINATION.
C38_FiveTypes ==
    /\ url_type \in {"unset", "HOME", "CATEGORY", "SUBCATEGORY", "PRODUCT",
                     "INVALID"}
    /\ url_type # "PAGINATION"
    /\ url_info # Unset => url_type # "unset"

\* C38 witness: page 10 of a category has been typed CATEGORY
C38_LaterPageIsCategory ==
    /\ url_type = "CATEGORY"
    /\ filter_url = Url("www.ouedkniss.com", <<"/", "a", "/", "1", "0">>)

\* C39: when BaseScraper.fetch_page has returned, it has done what the
\* crawler's fetch_page does when its requests meet the same responses: as
\* many requests (a 404 among them being the last), the same backoff sleeps
\* (2 ** attempt after every failed attempt that another attempt follows, a
\* status other than 200 as well as an exception), and the same value
C39_SameRetryPolicy ==
    scraper_pc = "returned" =>
        LET crawler == CrawlerFetch(scraper_seen, 0, <<>>)
        IN  /\ Len(scraper_seen) = crawler.requests
            /\ \A i \in 1..Len(scraper_seen) :
                  scraper_seen[i].status = "404" => i = Len(scraper_seen)
            /\ scraper_backoffs = crawler.backoffs
            /\ scraper_html = crawler.html

====
